---- MODULE Spec2Model ----
(***************************************************************************)
(* A model of ttybox's clipboard command (src/src/clipboard.rs): the OSC   *)
(* 52 frame codec, the noecho/cbreak scope around the paste exchange, and  *)
(* the mio-driven reader that collects the terminal emulator's response.   *)
(* Bytes are integers 0..255, byte strings are sequences of bytes.         *)
(***************************************************************************)
EXTENDS Integers, Sequences, FiniteSets, TLC

\* ---------------------------------------------------------------- bytes
ESC == 27
BEL == 7
SEMI == 59
PAD == 61
QUERY == 63

\* ---------------------------------------------------------------- bounds
\* Longest clipboard content the codec harness enumerates.
MaxContentLen == 3
\* Granularity of the modelled clock, in milliseconds.
TickMs == 250
\* The elapsed-time ghosts saturate here (milliseconds).
MaxElapsed == 1500
\* The accumulator is recorded up to this many bytes (its tail is kept).
MaxAccum == 16

\* ---------------------------------------------------------------- constants
TTY_CLIPBOARD_BUFFER_SIZE == 8192
TTY_CLIPBOARD_MAX_WAIT_TIME == 500

\* ---------------------------------------------------------------- io::Result
Ok(v) == [ok |-> TRUE, val |-> v, kind |-> "none", msg |-> "none"]
Err(k, m) == [ok |-> FALSE, val |-> <<>>, kind |-> k, msg |-> m]
\* No value yet (the call has not returned).
NotYet == [ok |-> FALSE, val |-> <<>>, kind |-> "notyet", msg |-> "notyet"]

Min(a, b) == IF a <= b THEN a ELSE b

EndsWith(s, b) == Len(s) > 0 /\ s[Len(s)] = b

\* ---------------------------------------------------------------- base64
\* The standard alphabet: 6-bit value -> symbol.
B64Char(v) ==
    IF v < 26 THEN 65 + v
    ELSE IF v < 52 THEN 97 + (v - 26)
    ELSE IF v < 62 THEN 48 + (v - 52)
    ELSE IF v = 62 THEN 43
    ELSE 47

\* Mutant: the URL-safe alphabet (`-` and `_` for `+` and `/`).
B64ValUrlSafe(c) ==
    IF c >= 65 /\ c <= 90 THEN c - 65
    ELSE IF c >= 97 /\ c <= 122 THEN c - 97 + 26
    ELSE IF c >= 48 /\ c <= 57 THEN c - 48 + 52
    ELSE IF c = 45 THEN 62
    ELSE IF c = 95 THEN 63
    ELSE -1

\* Symbol -> 6-bit value, -1 for a byte outside the alphabet.
B64Val(c) ==
    IF c >= 65 /\ c <= 90 THEN c - 65
    ELSE IF c >= 97 /\ c <= 122 THEN c - 97 + 26
    ELSE IF c >= 48 /\ c <= 57 THEN c - 48 + 52
    ELSE IF c = 43 THEN 62
    ELSE IF c = 47 THEN 63
    ELSE -1

RECURSIVE Base64Encode(_)
Base64Encode(s) ==
    IF Len(s) = 0 THEN <<>>
    ELSE IF Len(s) = 1 THEN
        <<B64Char(s[1] \div 4), B64Char((s[1] % 4) * 16), PAD, PAD>>
    ELSE IF Len(s) = 2 THEN
        <<B64Char(s[1] \div 4), B64Char((s[1] % 4) * 16 + (s[2] \div 16)),
          B64Char((s[2] % 16) * 4), PAD>>
    ELSE
        <<B64Char(s[1] \div 4), B64Char((s[1] % 4) * 16 + (s[2] \div 16)),
          B64Char((s[2] % 16) * 4 + (s[3] \div 64)), B64Char(s[3] % 64)>>
        \o Base64Encode(SubSeq(s, 4, Len(s)))

\* One group of four symbols -> [ok, val]. Padding is accepted only when
\* `last`, and only in canonical form (no stray bits under the padding).
B64Quad(q, last) ==
    LET v1 == B64Val(q[1])
        v2 == B64Val(q[2])
        v3 == B64Val(q[3])
        v4 == B64Val(q[4])
    IN  IF v1 < 0 \/ v2 < 0 THEN [ok |-> FALSE, val |-> <<>>]
        ELSE IF v3 >= 0 /\ v4 >= 0 THEN
            [ok |-> TRUE,
             val |-> <<v1 * 4 + (v2 \div 16), (v2 % 16) * 16 + (v3 \div 4),
                       (v3 % 4) * 64 + v4>>]
        ELSE IF last /\ v3 >= 0 /\ q[4] = PAD /\ v3 % 4 = 0 THEN
            [ok |-> TRUE,
             val |-> <<v1 * 4 + (v2 \div 16), (v2 % 16) * 16 + (v3 \div 4)>>]
        ELSE IF last /\ q[3] = PAD /\ q[4] = PAD /\ v2 % 16 = 0 THEN
            [ok |-> TRUE, val |-> <<v1 * 4 + (v2 \div 16)>>]
        ELSE [ok |-> FALSE, val |-> <<>>]

RECURSIVE Base64Decode(_)
Base64Decode(s) ==
    IF Len(s) = 0 THEN [ok |-> TRUE, val |-> <<>>]
    ELSE IF Len(s) < 4 THEN [ok |-> FALSE, val |-> <<>>]
    ELSE LET head == B64Quad(SubSeq(s, 1, 4), Len(s) = 4)
             rest == Base64Decode(SubSeq(s, 5, Len(s)))
         IN  IF head.ok /\ rest.ok
             THEN [ok |-> TRUE, val |-> head.val \o rest.val]
             ELSE [ok |-> FALSE, val |-> <<>>]

\* ---------------------------------------------------------------- frame codec
\* Mutant: the --primary flag is ignored.
SelectorAlwaysClipboard(primary) == 99

Selector(primary) == IF primary THEN 112 ELSE 99

\* The bytes osc_copy builds for `content`.
osc_copy_sequence(content, primary) ==
    <<ESC, 93, 53, 50, SEMI, Selector(primary), SEMI>>
    \o Base64Encode(content) \o <<BEL>>

\* The bytes osc_request_paste builds.
osc_paste_sequence(primary) ==
    <<ESC, 93, 53, 50, SEMI, Selector(primary), SEMI, QUERY, BEL>>

\* Index of the last `;` of s, 0 when there is none.
LastSemi(s) ==
    LET at == {i \in 1..Len(s) : s[i] = SEMI}
    IN  IF at = {} THEN 0 ELSE CHOOSE i \in at : \A j \in at : j <= i

\* Mutant: the payload is taken to be the third `;`-separated field,
\* split(';').nth(2), instead of the last one.
SplitThird(s) ==
    LET at == {i \in 1..Len(s) : s[i] = SEMI}
        nth(k) == CHOOSE i \in at : Cardinality({j \in at : j <= i}) = k
    IN  IF Cardinality(at) < 2 THEN [some |-> FALSE, seg |-> <<>>]
        ELSE [some |-> TRUE,
              seg |-> SubSeq(s, nth(2) + 1,
                             IF Cardinality(at) >= 3 THEN nth(3) - 1 ELSE Len(s))]

\* slice::rsplit(|b| b == ';').next(): the segment after the last `;`, the
\* whole slice when it holds no `;`. The iterator always yields one item.
RsplitNext(s) == [some |-> TRUE, seg |-> SubSeq(s, LastSemi(s) + 1, Len(s))]

\* Mutant: a segment without the terminator is taken as it is
\* (strip_suffix(..).unwrap_or(segment)).
StripSuffixBelLenient(s) ==
    IF EndsWith(s, BEL)
    THEN [some |-> TRUE, seg |-> SubSeq(s, 1, Len(s) - 1)]
    ELSE [some |-> TRUE, seg |-> s]

\* slice::strip_suffix(b"\x07")
StripSuffixBel(s) ==
    IF EndsWith(s, BEL)
    THEN [some |-> TRUE, seg |-> SubSeq(s, 1, Len(s) - 1)]
    ELSE [some |-> FALSE, seg |-> <<>>]

osc_decode_paste(osc_response) ==
    LET last == RsplitNext(osc_response)
    IN  IF ~last.some
        THEN Err("InvalidData", "Cannot parse OSC 52 response.")
        ELSE LET content == StripSuffixBel(last.seg)
             IN  IF ~content.some
                 THEN Err("InvalidData",
                          "OSC 52 response doesn't contain the terminating character.")
                 ELSE LET bytes == Base64Decode(content.seg)
                      IN  IF bytes.ok THEN Ok(bytes.val)
                          ELSE Err("InvalidData",
                                   "OSC 52 response doesn't contain valid base64 content.")

\* ---------------------------------------------------------------- state
VARIABLES
    cmd,        \* "get" or "set": the ClipboardCommands variant
    primary,    \* the --primary flag
    argContent, \* ClipboardSetArgs.content: [some, val]
    stdinBytes, \* what standard input holds (read by set without an argument)
    pc,         \* where the invocation is
    term,       \* the terminal's mode: [curses, echo, cbreak]
    ttyOpen,    \* the File on /dev/tty is open
    nonblocking,\* O_NONBLOCK is set on its descriptor
    ttyOut,     \* every byte written to the terminal device, in order
    nWrites,    \* write calls on the terminal device
    io,         \* the device call the last step made ("read_zero": a read
                \* that returned 0), "none" if it made none
    response,   \* what the emulator replies to a paste request
    pending,    \* the part of the reply the emulator has not sent yet
    ttyIn,      \* bytes delivered to the descriptor and not yet read
    hup,        \* the terminal hung up: a read of an empty queue returns 0
    typing,     \* keys are still being pressed at the terminal
    content,    \* read_paste_response's accumulator
    drained,    \* read_with_draining's local buffer
    waited,     \* ms the current poll call has been waiting
    gap,        \* ms since the last readiness event (or the reader's start),
                \* saturating at MaxElapsed
    elapsed,    \* ms since the reader started, saturating at MaxElapsed
    rv,         \* what the closure under with_noecho_cbreak_mode returned
    decoded,    \* what osc_decode_paste returned
    stdout,     \* bytes written to standard output
    result,     \* what main returns: Ok -> exit 0, Err -> exit 1
    codecIn,    \* codec harness: the response handed to osc_decode_paste
    codecOut    \* codec harness: its result

vars == <<cmd, primary, argContent, stdinBytes, pc, term, ttyOpen, nonblocking,
          ttyOut, nWrites, io, response, pending, ttyIn, hup, typing, content,
          drained,
          waited, gap, elapsed, rv, decoded, stdout, result, codecIn, codecOut>>

\* Variable groups, for UNCHANGED.
inputVars == <<cmd, primary, argContent, stdinBytes, response>>
clockVars == <<waited, gap, elapsed>>
codecVars == <<codecIn, codecOut>>
emulatorVars == <<pending, ttyIn, hup, typing>>
devVars == <<ttyOpen, nonblocking, ttyOut, nWrites>>
readerVars == <<content, drained>>
outVars == <<decoded, stdout, result>>

\* ---------------------------------------------------------------- inputs
Some(v) == [some |-> TRUE, val |-> v]
None == [some |-> FALSE, val |-> <<>>]

\* Contents a set is asked to copy.
SetContents == {<<>>, <<104>>, <<104, 0>>, <<255, 10, 104>>}

\* Replies of the terminal emulator to a paste request: none at all (no OSC
\* 52 support), frames for an empty and a non-empty clipboard, a frame with
\* the selector omitted, a frame whose payload is not base64, a reply that
\* never gets its terminator, a frame followed by a stray byte, and a frame
\* followed by a stray byte and a second terminator.
Responses(p) ==
    { <<>>,
      osc_copy_sequence(<<>>, p),
      osc_copy_sequence(<<104, 105>>, p),
      <<ESC, 93, 53, 50, SEMI, SEMI>> \o Base64Encode(<<104>>) \o <<BEL>>,
      <<ESC, 93, 53, 50, SEMI, Selector(p), SEMI, 33, BEL>>,
      <<ESC, 93, 53, 50, SEMI, Selector(p), SEMI, 97, 65>>,
      osc_copy_sequence(<<>>, p) \o <<120>>,
      osc_copy_sequence(<<>>, p) \o <<120, BEL>> }

\* The terminal as the shell left it: line-buffered, echoing, no curses
\* screen. This is the mode endwin goes back to.
TermCooked == [curses |-> FALSE, echo |-> TRUE, cbreak |-> FALSE]

InitMain ==
    /\ pc = "start"
    /\ term = TermCooked
    /\ ttyOpen = FALSE
    /\ nonblocking = FALSE
    /\ ttyOut = <<>>
    /\ nWrites = 0
    /\ io = "none"
    /\ pending = <<>>
    /\ ttyIn = <<>>
    /\ hup = FALSE
    /\ content = <<>>
    /\ drained = <<>>
    /\ waited = 0
    /\ gap = 0
    /\ elapsed = 0
    /\ rv = NotYet
    /\ decoded = NotYet
    /\ stdout = <<>>
    /\ result = NotYet

Init ==
    /\ cmd \in {"get", "set"}
    /\ primary \in BOOLEAN
    /\ argContent \in IF cmd = "set"
                      THEN {None} \cup {Some(c) : c \in SetContents}
                      ELSE {None}
    /\ stdinBytes \in IF cmd = "set" /\ ~argContent.some
                      THEN SetContents ELSE {<<>>}
    /\ response \in IF cmd = "get" THEN Responses(primary) ELSE {<<>>}
    /\ typing = FALSE
    /\ InitMain
    /\ codecIn = <<>>
    /\ codecOut = NotYet

\* ---------------------------------------------------------------- get
\* Mutant: the noecho() call is missing.
enter_without_noecho ==
    /\ pc = "start" /\ cmd = "get"
    /\ term' = [curses |-> TRUE, echo |-> TRUE, cbreak |-> TRUE]
    /\ pc' = "open"
    /\ io' = "none"
    /\ UNCHANGED <<inputVars, clockVars, codecVars, emulatorVars, devVars,
                   readerVars, outVars, rv>>

\* with_noecho_cbreak_mode, before func(): initscr, noecho, cbreak.
with_noecho_cbreak_mode_enter ==
    /\ pc = "start" /\ cmd = "get"
    /\ term' = [curses |-> TRUE, echo |-> FALSE, cbreak |-> TRUE]
    /\ pc' = "open"
    /\ io' = "none"
    /\ UNCHANGED <<inputVars, clockVars, codecVars, emulatorVars, devVars,
                   readerVars, outVars, rv>>

\* initscr cannot set the terminal up (TERM unknown): it reports and exits
\* the process before any mode is changed.
initscr_exits ==
    /\ pc = "start" /\ cmd = "get"
    /\ result' = Err("Other", "Error opening terminal")
    /\ pc' = "exit"
    /\ io' = "none"
    /\ UNCHANGED <<inputVars, clockVars, codecVars, emulatorVars, devVars,
                   readerVars, rv, decoded, stdout, term>>

\* The closure returns `e` to with_noecho_cbreak_mode; its File is dropped.
\* The reader's buffers (content, drained) are dropped too: they keep their
\* last value here only as a record, nothing reads them afterwards.
ClosureReturns(e) ==
    /\ rv' = e
    /\ pc' = "leave"
    /\ ttyOpen' = FALSE

\* File::options().write(true).read(true).open(TTY_DEVICE)?
tty_open ==
    /\ pc = "open"
    /\ io' = "open"
    /\ \/ /\ ttyOpen' = TRUE
          /\ pc' = "request"
          /\ UNCHANGED rv
       \/ ClosureReturns(Err("NotFound", "open"))
    /\ UNCHANGED <<inputVars, clockVars, codecVars, emulatorVars, nonblocking,
                   ttyOut, nWrites, readerVars, outVars, term>>

\* osc_request_paste(&mut tty, primary)?: one write of the request, a flush.
\* The emulator starts on its reply once the request is on the device.
osc_request_paste ==
    /\ pc = "request"
    /\ io' = "write"
    /\ nWrites' = nWrites + 1
    /\ \/ /\ ttyOut' = ttyOut \o osc_paste_sequence(primary)
          /\ pending' = response
          /\ pc' = "nonblock"
          /\ UNCHANGED <<rv, ttyOpen>>
       \/ /\ ClosureReturns(Err("Other", "write"))
          /\ UNCHANGED <<ttyOut, pending>>
    /\ UNCHANGED <<inputVars, clockVars, codecVars, ttyIn, hup, typing, nonblocking,
                   readerVars, outVars, term>>

\* set_nonblocking(file.as_raw_fd())?: F_GETFL, then F_SETFL | O_NONBLOCK.
set_nonblocking ==
    /\ pc = "nonblock"
    /\ io' = "fcntl"
    /\ \/ /\ nonblocking' = TRUE
          /\ pc' = "register"
          /\ UNCHANGED <<rv, ttyOpen>>
       \/ /\ ClosureReturns(Err("Other", "fcntl"))
          /\ UNCHANGED nonblocking
    /\ UNCHANGED <<inputVars, clockVars, codecVars, emulatorVars, ttyOut,
                   nWrites, readerVars, outVars, term>>

\* read_paste_response up to the loop: Poll::new()?, register(..)?, and the
\* first poll call.
poll_register ==
    /\ pc = "register"
    /\ io' = "none"
    /\ \/ /\ pc' = "await"
          /\ content' = <<>>
          /\ waited' = 0 /\ gap' = 0 /\ elapsed' = 0
          /\ UNCHANGED <<rv, ttyOpen>>
       \/ /\ ClosureReturns(Err("Other", "epoll"))
          /\ UNCHANGED <<content, clockVars>>
    /\ UNCHANGED <<inputVars, codecVars, emulatorVars, nonblocking, ttyOut,
                   nWrites, drained, outVars, term>>

\* Mutant: an empty event list makes the loop poll again.
poll_timeout_polls_again ==
    /\ pc = "await"
    /\ waited >= TTY_CLIPBOARD_MAX_WAIT_TIME
    /\ ttyIn = <<>> /\ ~hup
    /\ waited' = 0
    /\ io' = "none"
    /\ UNCHANGED <<inputVars, gap, elapsed, codecVars, emulatorVars, devVars,
                   readerVars, outVars, rv, pc, term>>

\* Mutant: on a timeout the request is sent again.
poll_timeout_requests_again ==
    /\ pc = "await"
    /\ waited >= TTY_CLIPBOARD_MAX_WAIT_TIME
    /\ ttyIn = <<>> /\ ~hup
    /\ pc' = "request"
    /\ io' = "none"
    /\ UNCHANGED <<inputVars, clockVars, codecVars, emulatorVars, devVars,
                   readerVars, outVars, rv, term>>

\* poll.poll(&mut events, Some(TTY_CLIPBOARD_MAX_WAIT_TIME)) returns with no
\* event once the window has elapsed: events.is_empty().
poll_timeout ==
    /\ pc = "await"
    /\ waited >= TTY_CLIPBOARD_MAX_WAIT_TIME
    /\ ttyIn = <<>> /\ ~hup
    /\ ClosureReturns(Err("Unsupported",
          "The terminal emulator either doesn't support OSC 52 or is sluggish."))
    /\ io' = "none"
    /\ UNCHANGED <<inputVars, clockVars, codecVars, emulatorVars, nonblocking,
                   ttyOut, nWrites, readerVars, outVars, term>>

\* poll.poll(..)? fails (the wait is interrupted by a signal).
poll_error ==
    /\ pc = "await"
    /\ waited < TTY_CLIPBOARD_MAX_WAIT_TIME
    /\ ClosureReturns(Err("Interrupted", "epoll_wait"))
    /\ io' = "none"
    /\ UNCHANGED <<inputVars, clockVars, codecVars, emulatorVars, nonblocking,
                   ttyOut, nWrites, readerVars, outVars, term>>

\* poll returns a readable event for TOKEN: read_with_draining starts.
poll_readable ==
    /\ pc = "await"
    /\ ttyIn # <<>> \/ hup
    /\ pc' = "drain"
    /\ drained' = <<>>
    /\ gap' = 0
    /\ io' = "none"
    /\ UNCHANGED <<inputVars, waited, elapsed, codecVars, emulatorVars, devVars,
                   content, outVars, rv, term>>

\* tty.read(&mut content_buf) is Ok(size), size > 0.
read_some ==
    /\ pc = "drain"
    /\ ttyIn # <<>>
    /\ LET size == Min(TTY_CLIPBOARD_BUFFER_SIZE, Len(ttyIn))
       IN  /\ drained' = drained \o SubSeq(ttyIn, 1, size)
           /\ ttyIn' = SubSeq(ttyIn, size + 1, Len(ttyIn))
    /\ io' = "read"
    /\ UNCHANGED <<inputVars, clockVars, codecVars, pending, hup, typing,
                   devVars, content, outVars, rv, pc, term>>

\* What the model keeps of an accumulator: all of it up to MaxAccum bytes,
\* beyond that its last MaxAccum bytes (the Vec itself grows without limit;
\* no reply of Responses is that long, only endless input makes it so).
Recorded(s) ==
    IF Len(s) <= MaxAccum THEN s
    ELSE SubSeq(s, Len(s) - MaxAccum + 1, Len(s))

\* The end of a drain in read_paste_response: content.extend(..) gives
\* `extended`; if it ends with BEL the loop breaks and Ok(content) is
\* returned, otherwise poll is called again, its timer at `timer`. `op` is
\* the read that ended the drain.
DrainEnds(extended, timer, op) ==
    /\ content' = Recorded(extended)
    /\ io' = op
    /\ IF EndsWith(extended, BEL)
       THEN /\ ClosureReturns(Ok(extended))
            /\ UNCHANGED waited
       ELSE /\ pc' = "await"
            /\ waited' = timer
            /\ UNCHANGED <<rv, ttyOpen>>
    /\ UNCHANGED <<inputVars, gap, elapsed, codecVars, emulatorVars,
                   nonblocking, ttyOut, nWrites, drained, outVars, term>>

\* Mutant: a read of zero bytes ends the drain like WouldBlock does.
read_zero_ends_drain ==
    /\ pc = "drain"
    /\ ttyIn = <<>> /\ hup
    /\ DrainEnds(content \o drained, 0, "read_zero")

\* Mutant: a read of zero bytes after bytes that complete the frame ends the
\* drain with those bytes kept.
read_zero_keeps_frame ==
    /\ pc = "drain"
    /\ ttyIn = <<>> /\ hup
    /\ IF EndsWith(content \o drained, BEL)
       THEN DrainEnds(content \o drained, 0, "read_zero")
       ELSE /\ ClosureReturns(Err("UnexpectedEof", "eof"))
            /\ io' = "read_zero"
            /\ UNCHANGED <<inputVars, clockVars, codecVars, emulatorVars,
                           nonblocking, ttyOut, nWrites, readerVars, outVars,
                           term>>

\* tty.read(..) is Ok(0): Err(UnexpectedEof) through both `?`.
read_zero ==
    /\ pc = "drain"
    /\ ttyIn = <<>> /\ hup
    /\ ClosureReturns(Err("UnexpectedEof", "eof"))
    /\ io' = "read_zero"
    /\ UNCHANGED <<inputVars, clockVars, codecVars, emulatorVars, nonblocking,
                   ttyOut, nWrites, readerVars, outVars, term>>

\* tty.read(..) fails with an error other than WouldBlock.
read_error ==
    /\ pc = "drain"
    /\ ClosureReturns(Err("Other", "read"))
    /\ io' = "read"
    /\ UNCHANGED <<inputVars, clockVars, codecVars, emulatorVars, nonblocking,
                   ttyOut, nWrites, readerVars, outVars, term>>

\* Mutant: the drained bytes replace the accumulator instead of extending it.
read_would_block_replacing ==
    /\ pc = "drain"
    /\ ttyIn = <<>> /\ ~hup
    /\ DrainEnds(drained, 0, "read")

\* Mutant: the next poll call waits for what is left of one overall deadline.
read_would_block_one_deadline ==
    /\ pc = "drain"
    /\ ttyIn = <<>> /\ ~hup
    /\ DrainEnds(content \o drained, waited, "read")

\* Mutant: the reader returns what it has after the first drain, terminator
\* or not.
read_would_block_returns_at_once ==
    /\ pc = "drain"
    /\ ttyIn = <<>> /\ ~hup
    /\ content' = Recorded(content \o drained)
    /\ io' = "read"
    /\ ClosureReturns(Ok(content \o drained))
    /\ UNCHANGED <<inputVars, clockVars, codecVars, emulatorVars,
                   nonblocking, ttyOut, nWrites, drained, outVars, term>>

\* Mutant: the frame is complete as soon as the accumulator holds a BEL.
read_would_block_any_bel ==
    /\ pc = "drain"
    /\ ttyIn = <<>> /\ ~hup
    /\ LET extended == content \o drained
       IN  IF \E i \in 1..Len(extended) : extended[i] = BEL
           THEN /\ content' = Recorded(extended)
                /\ io' = "read"
                /\ ClosureReturns(Ok(extended))
                /\ UNCHANGED <<inputVars, clockVars, codecVars, emulatorVars,
                               nonblocking, ttyOut, nWrites, drained, outVars,
                               term>>
           ELSE DrainEnds(extended, 0, "read")

\* tty.read(..) is Err(WouldBlock): the drain ends, content.extend(..), and
\* either content.ends_with(BEL) breaks the loop or poll is called again
\* with a fresh window.
read_would_block ==
    /\ pc = "drain"
    /\ ttyIn = <<>> /\ ~hup
    /\ DrainEnds(content \o drained, 0, "read")

\* Mutant: the terminal mode is restored only when func() succeeded.
leave_restores_on_ok_only ==
    /\ pc = "leave"
    /\ term' = IF rv.ok THEN TermCooked ELSE term
    /\ io' = "none"
    /\ IF rv.ok
       THEN pc' = "decode" /\ UNCHANGED result
       ELSE pc' = "exit" /\ result' = rv
    /\ UNCHANGED <<inputVars, clockVars, codecVars, emulatorVars, devVars,
                   readerVars, rv, decoded, stdout>>

\* Mutant: the response is decoded inside with_noecho_cbreak_mode, before
\* the terminal mode is restored.
leave_decodes_first ==
    /\ pc = "leave"
    /\ decoded' = IF rv.ok THEN osc_decode_paste(rv.val) ELSE decoded
    /\ term' = TermCooked
    /\ io' = "none"
    /\ IF rv.ok
       THEN pc' = "decode" /\ UNCHANGED result
       ELSE pc' = "exit" /\ result' = rv
    /\ UNCHANGED <<inputVars, clockVars, codecVars, emulatorVars, devVars,
                   readerVars, rv, stdout>>

\* with_noecho_cbreak_mode, after func(): nocbreak, echo, endwin, return rv;
\* then the `?` of osc_paste on that value.
with_noecho_cbreak_mode_leave ==
    /\ pc = "leave"
    /\ term' = TermCooked
    /\ io' = "none"
    /\ IF rv.ok
       THEN pc' = "decode" /\ UNCHANGED result
       ELSE pc' = "exit" /\ result' = rv
    /\ UNCHANGED <<inputVars, clockVars, codecVars, emulatorVars, devVars,
                   readerVars, rv, decoded, stdout>>

\* osc_paste: osc_decode_paste(..) on the closure's value; execute_get's `?`.
osc_paste_decode ==
    /\ pc = "decode"
    /\ decoded' = osc_decode_paste(rv.val)
    /\ io' = "none"
    /\ IF decoded'.ok
       THEN pc' = "emit" /\ UNCHANGED result
       ELSE pc' = "exit" /\ result' = decoded'
    /\ UNCHANGED <<inputVars, clockVars, codecVars, emulatorVars, devVars,
                   readerVars, rv, stdout, term>>

\* The counts Write::write may return for a buffer of n bytes.
WriteCounts(n) == IF n = 0 THEN {0} ELSE 1..n

\* execute_get: io::stdout().write(content.as_slice())?; Ok(())
stdout_write ==
    /\ pc = "emit"
    /\ io' = "none"
    /\ pc' = "exit"
    /\ \/ \E n \in WriteCounts(Len(decoded.val)) :
             /\ stdout' = stdout \o SubSeq(decoded.val, 1, n)
             /\ result' = Ok(<<>>)
       \/ /\ result' = Err("BrokenPipe", "stdout")
          /\ UNCHANGED stdout
    /\ UNCHANGED <<inputVars, clockVars, codecVars, emulatorVars, devVars,
                   readerVars, rv, decoded, term>>

\* ---------------------------------------------------------------- set
\* execute_set: the argument if given, else all of standard input.
SetContent == IF argContent.some THEN argContent.val ELSE stdinBytes

\* io::stdin().bytes().collect()? fails.
execute_set_stdin_error ==
    /\ pc = "start" /\ cmd = "set"
    /\ ~argContent.some
    /\ result' = Err("Other", "stdin")
    /\ pc' = "exit"
    /\ io' = "none"
    /\ UNCHANGED <<inputVars, clockVars, codecVars, emulatorVars, devVars,
                   readerVars, rv, decoded, stdout, term>>

\* Mutant: after writing the copy frame, set waits for a reply like get does.
osc_copy_awaits_reply ==
    /\ pc = "start" /\ cmd = "set"
    /\ io' = "write"
    /\ \/ /\ ttyOut' = ttyOut \o osc_copy_sequence(SetContent, primary)
          /\ nWrites' = nWrites + 1
          /\ pc' = "await"
          /\ UNCHANGED result
       \/ /\ result' = Err("NotFound", "open")
          /\ pc' = "exit"
          /\ UNCHANGED <<ttyOut, nWrites>>
    /\ UNCHANGED <<inputVars, clockVars, codecVars, emulatorVars, ttyOpen,
                   nonblocking, readerVars, rv, decoded, stdout, term>>

\* osc_copy: fs::write(TTY_DEVICE, osc_copy_sequence)?
osc_copy ==
    /\ pc = "start" /\ cmd = "set"
    /\ pc' = "exit"
    /\ io' = "write"
    /\ \/ /\ ttyOut' = ttyOut \o osc_copy_sequence(SetContent, primary)
          /\ nWrites' = nWrites + 1
          /\ result' = Ok(<<>>)
       \/ /\ result' = Err("NotFound", "open")
          /\ UNCHANGED <<ttyOut, nWrites>>
    /\ UNCHANGED <<inputVars, clockVars, codecVars, emulatorVars, ttyOpen,
                   nonblocking, readerVars, rv, decoded, stdout, term>>

\* ---------------------------------------------------------------- environment
\* The emulator sends the next k bytes of its reply.
TermDeliver ==
    /\ pending # <<>>
    /\ \E k \in 1..Len(pending) :
          /\ ttyIn' = ttyIn \o SubSeq(pending, 1, k)
          /\ pending' = SubSeq(pending, k + 1, Len(pending))
    /\ io' = "none"
    /\ UNCHANGED <<inputVars, clockVars, codecVars, hup, typing, devVars,
                   readerVars, outVars, rv, pc, term>>

\* The terminal goes away while the descriptor is open.
Hangup ==
    /\ ttyOpen /\ ~hup
    /\ pc \in {"await", "drain"}
    /\ hup' = TRUE
    /\ io' = "none"
    /\ UNCHANGED <<inputVars, clockVars, codecVars, pending, ttyIn, typing,
                   devVars, readerVars, outVars, rv, pc, term>>

\* Time passes while poll waits.
Tick ==
    /\ pc = "await"
    /\ waited < TTY_CLIPBOARD_MAX_WAIT_TIME
    /\ waited' = waited + TickMs
    /\ gap' = Min(gap + TickMs, MaxElapsed)
    /\ elapsed' = Min(elapsed + TickMs, MaxElapsed)
    /\ io' = "none"
    /\ UNCHANGED <<inputVars, codecVars, emulatorVars, devVars, readerVars,
                   outVars, rv, pc, term>>

Next ==
    \/ with_noecho_cbreak_mode_enter
    \/ initscr_exits
    \/ tty_open
    \/ osc_request_paste
    \/ set_nonblocking
    \/ poll_register
    \/ poll_timeout
    \/ poll_error
    \/ poll_readable
    \/ read_some
    \/ read_zero
    \/ read_error
    \/ read_would_block
    \/ with_noecho_cbreak_mode_leave
    \/ osc_paste_decode
    \/ stdout_write
    \/ execute_set_stdin_error
    \/ osc_copy
    \/ TermDeliver
    \/ Hangup
    \/ Tick

Spec == Init /\ [][Next]_vars

\* ---------------------------------------------------------------- endless input
\* The reader under input that need not stop: besides the emulator's reply,
\* keys pressed at the terminal reach the descriptor while poll waits, for
\* as long as `typing` holds.
KeyPress ==
    /\ typing
    /\ pc = "await" /\ ttyIn = <<>>
    /\ ttyIn' = <<120>>
    /\ io' = "none"
    /\ UNCHANGED <<inputVars, clockVars, codecVars, pending, hup, typing,
                   devVars, readerVars, outVars, rv, pc, term>>

\* The last key has been pressed.
StopTyping ==
    /\ typing
    /\ typing' = FALSE
    /\ io' = "none"
    /\ UNCHANGED <<inputVars, clockVars, codecVars, pending, ttyIn, hup,
                   devVars, readerVars, outVars, rv, pc, term>>

\* Replies the emulator gives in these runs: none, the frame of an empty
\* clipboard, and a reply that never gets its terminator. Keys are pressed
\* only at an emulator that gives no reply.
LiveResponses ==
    { <<>>,
      osc_copy_sequence(<<>>, FALSE),
      <<ESC, 93, 53, 50, SEMI, 99, SEMI, 97, 65>> }

InitLive ==
    /\ cmd = "get"
    /\ primary = FALSE
    /\ argContent = None
    /\ stdinBytes = <<>>
    /\ response \in LiveResponses
    /\ typing \in IF response = <<>> THEN BOOLEAN ELSE {FALSE}
    /\ InitMain
    /\ codecIn = <<>>
    /\ codecOut = NotYet

\* A step of the program itself (the one thread of a get).
ProgramStep ==
    \/ with_noecho_cbreak_mode_enter
    \/ initscr_exits
    \/ tty_open
    \/ osc_request_paste
    \/ set_nonblocking
    \/ poll_register
    \/ poll_timeout
    \/ poll_error
    \/ poll_readable
    \/ read_some
    \/ read_zero
    \/ read_error
    \/ read_would_block
    \/ with_noecho_cbreak_mode_leave
    \/ osc_paste_decode
    \/ stdout_write

NextLive ==
    \/ ProgramStep
    \/ TermDeliver
    \/ Hangup
    \/ Tick
    \/ KeyPress
    \/ StopTyping

\* The thread keeps running and the clock keeps advancing; the emulator and
\* the keyboard are under no obligation.
SpecLive ==
    /\ InitLive
    /\ [][NextLive]_vars
    /\ WF_vars(ProgramStep)
    /\ WF_vars(Tick)

\* ---------------------------------------------------------------- codec harness
\* osc_decode_paste applied to responses drawn from a bounded set.
ContentBytes == {0, 104, 255}

Contents == UNION {[1..n -> ContentBytes] : n \in 0..MaxContentLen}

\* What may precede the payload: the usual header for either selection, the
\* header without a selector, a bare `;`, extra fields (one of them the
\* field "!!!invalid"), and two prefixes that hold no `;`.
Prefixes ==
    { <<ESC, 93, 53, 50, SEMI, 99, SEMI>>,
      <<ESC, 93, 53, 50, SEMI, 112, SEMI>>,
      <<ESC, 93, 53, 50, SEMI, 99, SEMI,
        33, 33, 33, 105, 110, 118, 97, 108, 105, 100, SEMI>>,
      <<ESC, 93, 53, 50, SEMI, SEMI>>,
      <<SEMI>>,
      <<ESC, 93, 53, 50, SEMI, 112, SEMI, 120, SEMI, 121, SEMI>>,
      <<SEMI, SEMI, SEMI>>,
      <<>>,
      <<ESC, 93, 53, 50>> }

\* Payloads: base64 of every content, and four byte strings that are not
\* canonical base64 ("!!!invalid", "aA=", "aB==", "aA").
Payloads ==
    {Base64Encode(x) : x \in Contents}
    \cup { <<33, 33, 33, 105, 110, 118, 97, 108, 105, 100>>,
           <<97, 65, PAD>>, <<97, 66, PAD, PAD>>, <<97, 65>> }

DecodeInputs ==
    {pre \o pay \o tail : pre \in Prefixes, pay \in Payloads,
                          tail \in {<<>>, <<BEL>>}}

InitCodec ==
    /\ cmd = "get"
    /\ primary = FALSE
    /\ argContent = None
    /\ stdinBytes = <<>>
    /\ response = <<>>
    /\ typing = FALSE
    /\ InitMain
    /\ codecIn \in DecodeInputs
    /\ codecOut = NotYet

CodecDecode ==
    /\ codecOut = NotYet
    /\ codecOut' = osc_decode_paste(codecIn)
    /\ UNCHANGED <<inputVars, clockVars, emulatorVars, devVars, readerVars,
                   outVars, rv, pc, term, io, codecIn>>

NextCodec == CodecDecode

SpecCodec == InitCodec /\ [][NextCodec]_vars

\* ---------------------------------------------------------------- properties
\* The mode with_noecho_cbreak_mode puts the terminal in.
NoechoCbreak(t) == t.curses /\ ~t.echo /\ t.cbreak

\* A call that returned an error.
Failed(r) == ~r.ok /\ r # NotYet

\* The calls a step can make on the terminal device.
DeviceOps == {"open", "write", "fcntl", "read", "read_zero"}

UnsupportedError ==
    Err("Unsupported",
        "The terminal emulator either doesn't support OSC 52 or is sluggish.")

\* C1: once a get has ended, by whatever path, the terminal is back in the
\* mode it had before: no curses screen, echo on, cbreak off.
C1_RestoredAfterGet ==
    (cmd = "get" /\ pc = "exit") => term = TermCooked

\* C1 witness: a get that entered noecho/cbreak mode, sent its request, timed
\* out and has ended.
C1_Witness ==
    /\ cmd = "get" /\ pc = "exit"
    /\ result = UnsupportedError
    /\ ttyOut # <<>>

\* C2: in a get, every call on the terminal device (open, the write of the
\* request, fcntl, every read) and every wait in poll happens in
\* noecho/cbreak mode, and the mode is still held when the step is over: it
\* is entered before the device is opened and left only after the reader
\* has returned.
C2_RawDuringExchange ==
    [][(cmd = "get" /\ (io' \in DeviceOps \/ pc' \in {"await", "drain"} \/ ttyOpen'))
          => (NoechoCbreak(term) /\ NoechoCbreak(term'))]_vars

\* C2 witness: the request is on the device and a drain has read bytes of
\* the reply, in noecho/cbreak mode.
C2_Witness ==
    /\ cmd = "get" /\ pc = "drain"
    /\ ttyOut = osc_paste_sequence(primary)
    /\ drained # <<>>
    /\ NoechoCbreak(term)

\* C3 as claimed: the response is decoded while the terminal is still in
\* noecho/cbreak mode (decode, then restore, then emit).
C3_DecodeUnderGuard ==
    [][(cmd = "get" /\ decoded = NotYet /\ decoded' # NotYet)
          => NoechoCbreak(term)]_vars

\* C3 as amended: in a successful get the terminal mode is restored first,
\* then the response is decoded (with the terminal back in its prior mode,
\* nothing written to standard output yet), then the decoded bytes are
\* emitted.
C3_RestoreDecodeEmit ==
    [][/\ (cmd = "get" /\ decoded = NotYet /\ decoded' # NotYet)
            => (rv.ok /\ term = TermCooked /\ term' = TermCooked
                /\ stdout = <<>> /\ result = NotYet)
       /\ (cmd = "get" /\ ~result.ok /\ result'.ok)
            => (decoded.ok /\ term = TermCooked
                /\ \E n \in 0..Len(decoded.val) :
                      stdout' = SubSeq(decoded.val, 1, n))
       /\ (cmd = "get" /\ stdout' # stdout)
            => (decoded.ok /\ term = TermCooked)]_vars

\* C3 witness: a get that succeeded and emitted decoded bytes.
C3_Witness ==
    /\ cmd = "get" /\ pc = "exit"
    /\ result.ok /\ decoded.ok
    /\ stdout # <<>>

\* C4: when poll has waited the whole window and no readiness event is there
\* (nothing to read, no hang-up), the program's next step is to fail with
\* Unsupported, whether or not bytes have been accumulated.
C4_TimeoutIsUnsupported ==
    [][(/\ pc = "await"
        /\ waited >= TTY_CLIPBOARD_MAX_WAIT_TIME
        /\ ttyIn = <<>> /\ ~hup
        /\ UNCHANGED emulatorVars)
          => (rv' = UnsupportedError /\ pc' = "leave")]_vars

\* C4 witness: a timeout on a later wait, with a partial response (no
\* trailing BEL) in the accumulator.
C4_Witness ==
    /\ rv = UnsupportedError
    /\ content # <<>> /\ ~EndsWith(content, BEL)

\* C5: no byte of the reply is lost, duplicated or reordered on its way into
\* the accumulator; a drain that ends with the accumulator ending in BEL
\* returns the accumulator, a drain that ends otherwise goes back to waiting;
\* what the reader returns is every byte read since it started.
C5_Reassembly ==
    [][/\ (pc \in {"await", "drain"})
            => (content \o (IF pc = "drain" THEN drained ELSE <<>>)
                  \o ttyIn \o pending = response)
       /\ (pc = "drain" /\ pc' # "drain" /\ ~Failed(rv'))
            => IF EndsWith(content \o drained, BEL)
               THEN rv' = Ok(content \o drained) /\ pc' = "leave"
               ELSE rv' = NotYet /\ pc' = "await"
                    /\ content' = content \o drained
       /\ (~rv.ok /\ rv'.ok)
            => (/\ EndsWith(rv'.val, BEL)
                /\ rv'.val \o ttyIn' \o pending' = response)]_vars

\* C5 witness: the reader returned a response that took more than one
\* readiness event (time passed in an earlier poll call than the last).
C5_Witness ==
    /\ rv.ok
    /\ elapsed > waited
    /\ rv.val = response

\* C6: the reader fails with Unsupported only when the gap since the last
\* readiness event (or since its start) has reached the window; the total
\* time since the reader started plays no part.
C6_WindowRestarts ==
    [][(rv' = UnsupportedError /\ rv # UnsupportedError)
          => gap >= TTY_CLIPBOARD_MAX_WAIT_TIME]_vars

\* C6 witness: the reader completed although the whole exchange took at
\* least twice the window.
C6_Witness ==
    /\ rv.ok
    /\ elapsed >= 2 * TTY_CLIPBOARD_MAX_WAIT_TIME

\* C7: a read that returns zero bytes makes the reader fail with
\* UnexpectedEof at once, with none of the accumulated bytes in its result;
\* after that the invocation makes no further call on the device and waits
\* no more.
C7_ZeroReadIsEof ==
    [][/\ io' = "read_zero"
            => (rv' = Err("UnexpectedEof", "eof") /\ pc' = "leave")
       /\ rv.kind = "UnexpectedEof"
            => (io' \notin DeviceOps /\ pc' \notin {"await", "drain"}
                /\ rv' = rv)]_vars

\* C7 witness: UnexpectedEof after bytes had been accumulated, none of them
\* a terminator.
C7_Witness ==
    /\ rv = Err("UnexpectedEof", "eof")
    /\ content \o drained # <<>>
    /\ \A i \in 1..Len(content \o drained) : (content \o drained)[i] # BEL

\* C8: a get that has ended either succeeded with exactly the decoded bytes
\* on standard output, or failed with nothing on standard output.
C8_AllOrNothing ==
    (cmd = "get" /\ pc = "exit")
        => \/ result.ok /\ decoded.ok /\ stdout = decoded.val
           \/ ~result.ok /\ stdout = <<>>

\* C9: a get writes its request at most once; once the reader or the decoder
\* has failed, the invocation makes no further call on the device, does not
\* wait again, and ends with that error as its result.
C9_NoRetry ==
    [][cmd = "get" =>
        /\ nWrites' <= 1
        /\ (Failed(rv) \/ Failed(decoded))
              => (io' \notin DeviceOps /\ pc' \in {"leave", "exit"}
                  /\ ttyOut' = ttyOut /\ nWrites' = nWrites)
        /\ (pc' = "exit" /\ Failed(rv')) => result' = rv'
        /\ (pc' = "exit" /\ Failed(decoded')) => result' = decoded']_vars

\* C9 witness: a get whose decoder failed after one request and ended with
\* the decoder's error.
C9_Witness ==
    /\ cmd = "get" /\ pc = "exit"
    /\ nWrites = 1
    /\ Failed(decoded) /\ result = decoded

\* C10: whatever precedes the last `;`, a response whose bytes after a `;`
\* are base64(X) followed by BEL decodes to X (base64 holds no `;`, so that
\* `;` is the last one).
C10_LastSegmentIsPayload ==
    \A x \in Contents : \A i \in 1..Len(codecIn) :
        (/\ codecOut # NotYet
         /\ codecIn[i] = SEMI
         /\ SubSeq(codecIn, i + 1, Len(codecIn)) = Base64Encode(x) \o <<BEL>>)
            => codecOut = Ok(x)

\* C10 witness: a response with four `;` before a non-empty payload, decoded.
C10_Witness ==
    /\ codecOut.ok /\ codecOut.val # <<>>
    /\ Cardinality({i \in 1..Len(codecIn) : codecIn[i] = SEMI}) >= 4

\* The three errors of osc_decode_paste.
MalformedFrame == Err("InvalidData", "Cannot parse OSC 52 response.")
MissingTerminator ==
    Err("InvalidData", "OSC 52 response doesn't contain the terminating character.")
InvalidPayload ==
    Err("InvalidData", "OSC 52 response doesn't contain valid base64 content.")

HasSemi(s) == \E i \in 1..Len(s) : s[i] = SEMI

\* C11: every response without a `;` is rejected as a malformed frame.
C11_NoSemiIsMalformed ==
    (codecOut # NotYet /\ ~HasSemi(codecIn)) => codecOut = MalformedFrame

\* ESC ] 5 2 ; c ; !!!invalid ; BEL
InvalidFieldThenEmpty ==
    <<ESC, 93, 53, 50, SEMI, 99, SEMI,
      33, 33, 33, 105, 110, 118, 97, 108, 105, 100, SEMI, BEL>>

\* ESC ] 5 2 ; c ; !!!invalid BEL
InvalidFieldLast ==
    <<ESC, 93, 53, 50, SEMI, 99, SEMI,
      33, 33, 33, 105, 110, 118, 97, 108, 105, 100, BEL>>

\* C12 as claimed: ESC ] 5 2 ; c ; !!!invalid ; BEL fails with InvalidPayload.
C12_InvalidFieldRejected ==
    (codecOut # NotYet /\ codecIn = InvalidFieldThenEmpty)
        => codecOut = InvalidPayload

\* C12 as amended: ESC ] 5 2 ; c ; !!!invalid ; BEL decodes to the empty byte
\* sequence, the segment after its last `;` being empty; the same response
\* without that last `;` fails with InvalidPayload.
C12_InvalidFieldIgnored ==
    /\ (codecOut # NotYet /\ codecIn = InvalidFieldThenEmpty)
          => codecOut = Ok(<<>>)
    /\ (codecOut # NotYet /\ codecIn = InvalidFieldLast)
          => codecOut = InvalidPayload

\* C12 witness: that response, decoded.
C12_Witness ==
    codecIn = InvalidFieldThenEmpty /\ codecOut = Ok(<<>>)

\* C13: a response that holds a `;` and does not end with BEL fails with
\* MissingTerminator, whatever its payload: the terminator is looked for
\* before the payload is decoded.
C13_MissingTerminatorFirst ==
    (codecOut # NotYet /\ HasSemi(codecIn) /\ ~EndsWith(codecIn, BEL))
        => codecOut = MissingTerminator

\* C13 witness: a response without terminator whose payload is not base64
\* ("!!!invalid"), reported as MissingTerminator.
C13_Witness ==
    /\ codecIn = SubSeq(InvalidFieldLast, 1, Len(InvalidFieldLast) - 1)
    /\ codecOut = MissingTerminator

\* C14: the frame set builds for X, with either selector, decodes to X.
C14_RoundTrip ==
    \A x \in Contents : \A p \in BOOLEAN :
        (codecOut # NotYet /\ codecIn = osc_copy_sequence(x, p))
            => codecOut = Ok(x)

\* C14 witness: the frame set builds for three non-text bytes and the
\* primary selection (its payload ends in `/`) has been decoded to them.
C14_Witness ==
    /\ codecIn = osc_copy_sequence(<<255, 0, 255>>, TRUE)
    /\ codecIn[Len(codecIn) - 1] = 47
    /\ codecOut = Ok(<<255, 0, 255>>)

C16_SetFireAndForget ==
    [][cmd = "set" =>
        /\ io' \in {"none", "write"}
        /\ pc' \in {"start", "exit"}
        /\ term' = term /\ term = TermCooked
        /\ nonblocking' = nonblocking /\ ~nonblocking
        /\ ~ttyOpen'
        /\ nWrites' <= 1
        /\ (pc = "start" /\ pc' = "exit" /\ result'.ok)
              => (nWrites' = 1
                  /\ ttyOut' = osc_copy_sequence(SetContent, primary))
        /\ content' = <<>> /\ drained' = <<>>]_vars

\* C16 witness: a set that took its content from standard input has written
\* its frame and ended successfully.
C16_Witness ==
    /\ cmd = "set" /\ pc = "exit"
    /\ ~argContent.some /\ stdinBytes # <<>>
    /\ result.ok /\ nWrites = 1

\* The reader is in its loop: waiting in poll or draining.
ReaderRunning == pc \in {"await", "drain"}

\* C17 as claimed: every run of the reader ends.
C17_ReaderAlwaysEnds == ReaderRunning ~> ~ReaderRunning

\* C17 as amended: once no more keys are pressed (the input to the
\* descriptor is finite), the reader ends: it completes, times out or fails.
C17_ReaderEndsOnceInputStops ==
    (ReaderRunning /\ ~typing) ~> (~ReaderRunning /\ rv # NotYet)

\* C17 witness: a reader that accumulated key presses, none of them a
\* terminator, and timed out after the typing had stopped.
C17_Witness ==
    /\ ~typing
    /\ rv = UnsupportedError
    /\ Len(content) >= 3
    /\ \A i \in 1..Len(content) : content[i] = 120


\* C18: every byte sequence the reader returns successfully ends with BEL;
\* so in a get the decoder never fails with the missing-terminator or the
\* cannot-parse error, and the only decode failure of a get is the invalid
\* payload.
C18_ReaderOutputTerminated ==
    /\ rv.ok => EndsWith(rv.val, BEL)
    /\ (cmd = "get" /\ Failed(decoded))
          => /\ decoded = InvalidPayload
             /\ decoded \notin {MissingTerminator, MalformedFrame}

\* C18 witness: a get whose reader returned a terminated reply that the
\* decoder rejected.
C18_Witness ==
    /\ cmd = "get" /\ pc = "exit"
    /\ rv.ok /\ EndsWith(rv.val, BEL)
    /\ decoded = InvalidPayload /\ result = decoded


\* A complete frame followed by more, the last byte not the terminator.
FrameThenMore(s) ==
    /\ \E i \in 1..(Len(s) - 1) : s[i] = BEL
    /\ ~EndsWith(s, BEL)

C19_LaterDrainCompletes ==
    /\ rv = Ok(osc_copy_sequence(<<>>, primary) \o <<120, BEL>>)
    /\ drained = <<BEL>>


\* C20: a drain succeeds (the reader completes or goes back to waiting)
\* only on a read that would block. A read of zero bytes makes the reader
\* fail with UnexpectedEof: the bytes read earlier in that drain are not
\* appended to the accumulator and are in no result, even when they end
\* with BEL and complete the frame; nothing is decoded or emitted after it.
C20_DrainNeedsWouldBlock ==
    [][/\ (pc = "drain" /\ (pc' = "await" \/ rv'.ok))
          => (ttyIn = <<>> /\ ~hup /\ io' = "read")
       /\ io' = "read_zero"
          => (/\ rv' = Err("UnexpectedEof", "eof") /\ rv'.val = <<>>
              /\ content' = content /\ pc' = "leave")
       /\ rv.kind = "UnexpectedEof"
          => (decoded' = NotYet /\ stdout' = <<>> /\ ~result'.ok)]_vars

\* C20 witness: a get that failed with UnexpectedEof although the bytes of
\* its last drain had completed the frame.
C20_Witness ==
    /\ cmd = "get" /\ pc = "exit"
    /\ result = Err("UnexpectedEof", "eof")
    /\ drained # <<>>
    /\ EndsWith(content \o drained, BEL)
    /\ osc_decode_paste(content \o drained).ok
    /\ stdout = <<>>

====
